---- MODULE Spec2Model ----
\* Verification model of the BNPL credit ledger of kudiway-backend
\* (kudiwallet/models.py, kudiwallet/views.py).
\*
\* Money is held in whole cents (Decimal with 2 places <-> Int), dates as day
\* numbers.  Every request handler is modelled twice from the same pieces:
\*   - as one atomic action (specification Spec: requests served one at a time);
\*   - split at its database accesses (specifications SpecConc and SpecFail),
\*     because the handlers run without transaction.atomic / select_for_update:
\*     every Model.save() and objects.create() is its own autocommitted
\*     statement and save() rewrites every column from the in-memory object.
EXTENDS Integers, Sequences, FiniteSets, TLC

VARIABLES
    wallet,      \* the Wallet row of the user
    purchases,   \* the CreditPurchase rows of the user, index = primary key
    txlog,       \* the Transaction rows of the user, in creation order
    today,       \* timezone.now().date() as a day number
    last,        \* the last finished request (handler and arguments)
    resp,        \* the response of the last finished request
    nops,        \* number of requests served so far
    pc,          \* per worker: position inside its handler
    req,         \* per worker: the request it is serving
    lw,          \* per worker: its in-memory Wallet object
    lp,          \* per worker: its evaluated queryset (list of [id, row])
    li,          \* per worker: loop index into lp
    rp,          \* per worker: remaining_payment
    wresp,       \* per worker: the response it returned
    base         \* the database when the running requests were admitted

vars ==
    <<wallet, purchases, txlog, today, last, resp, nops, pc, req, lw, lp, li, rp,
      wresp, base>>

dbvars ==
    <<wallet, purchases, txlog>>

workervars ==
    <<pc, req, lw, lp, li, rp, wresp, base>>

-----------------------------------------------------------------------------
\* Bounds of the model

MaxOps ==
    4

MaxDay ==
    21

MaxRounds ==
    3

-----------------------------------------------------------------------------
\* Program constants (cents, percent, days)

DefaultCreditLimit ==
    50000

DefaultCreditScore ==
    600

MinScore ==
    300

MaxScore ==
    1000

LimitIncreaseScore ==
    700

TermDays ==
    14

InterestRate ==
    500

PenaltyRate ==
    100

-----------------------------------------------------------------------------
\* Decimal arithmetic

Abs(x) ==
    IF x < 0 THEN -x ELSE x

\* Decimal.quantize(Decimal("0.01")) of the non-negative rational n/d cents
\* under the default context (ROUND_HALF_EVEN).
Quantize(n, d) ==
    LET fl == n \div d
        rem == n - fl * d
    IN  IF 2 * rem < d THEN fl
        ELSE IF 2 * rem > d THEN fl + 1
        ELSE IF fl % 2 = 0 THEN fl ELSE fl + 1

-----------------------------------------------------------------------------
\* Rows and responses

NewWallet(balance, score) ==
    [balance |-> balance, savings_balance |-> 0, credit_balance |-> 0,
     credit_limit |-> DefaultCreditLimit, credit_score |-> score]

DB(w, ps, log) ==
    [wallet |-> w, purchases |-> ps, txlog |-> log]

Response(op, st, err) ==
    [op |-> op, status |-> st, error |-> err]

\* helper of a handler's result: the database it leaves and its response
Result(w, ps, log, op, st, err) ==
    [wallet |-> w, purchases |-> ps, txlog |-> log, resp |-> Response(op, st, err)]

\* an early "return Response(..., status=400)": nothing was saved
Reject(db, op, err) ==
    Result(db.wallet, db.purchases, db.txlog, op, 400, err)

\* variant: only the two newest entries are kept
log_transaction_keep_latest(log, transaction_type, amount) ==
    Append(IF Len(log) >= 2 THEN Tail(log) ELSE log,
           [transaction_type |-> transaction_type, amount |-> amount])

log_transaction(log, transaction_type, amount) ==
    Append(log, [transaction_type |-> transaction_type, amount |-> amount])

-----------------------------------------------------------------------------
\* Wallet handlers that do not touch credit lines

\* variant: the balance is saved without the "wallet.balance < 0" check
update_wallet_balance_unchecked(db, change) ==
    LET w == db.wallet
    IN  IF change = 0 THEN Reject(db, "update_wallet_balance", "ZeroChange")
        ELSE Result([w EXCEPT !.balance = @ + change], db.purchases,
                    log_transaction(db.txlog,
                                    IF change < 0 THEN "withdraw" ELSE "deposit",
                                    Abs(change)),
                    "update_wallet_balance", 200, "none")

update_wallet_balance(db, change) ==
    LET w == db.wallet
        nb == w.balance + change
    IN  IF change = 0 THEN Reject(db, "update_wallet_balance", "ZeroChange")
        ELSE IF nb < 0 THEN Reject(db, "update_wallet_balance", "InsufficientFunds")
        ELSE Result([w EXCEPT !.balance = nb], db.purchases,
                    log_transaction(db.txlog,
                                    IF change < 0 THEN "withdraw" ELSE "deposit",
                                    Abs(change)),
                    "update_wallet_balance", 200, "none")

deposit(db, amount, target) ==
    LET w == db.wallet
    IN  IF amount <= 0 THEN Reject(db, "deposit", "InvalidAmount")
        ELSE Result(IF target = "savings"
                      THEN [w EXCEPT !.savings_balance = @ + amount]
                      ELSE [w EXCEPT !.balance = @ + amount],
                    db.purchases,
                    log_transaction(db.txlog, "deposit", amount),
                    "deposit", 200, "none")

\* variant: the balance is not compared with the amount
deposit_to_savings_unchecked(db, amount) ==
    LET w == db.wallet
    IN  IF amount <= 0
          THEN Reject(db, "deposit_to_savings", "InsufficientFunds")
          ELSE Result([w EXCEPT !.balance = @ - amount,
                                !.savings_balance = @ + amount],
                      db.purchases,
                      log_transaction(db.txlog, "transfer", amount),
                      "deposit_to_savings", 200, "none")

deposit_to_savings(db, amount) ==
    LET w == db.wallet
    IN  IF amount <= 0 \/ w.balance < amount
          THEN Reject(db, "deposit_to_savings", "InsufficientFunds")
          ELSE Result([w EXCEPT !.balance = @ - amount,
                                !.savings_balance = @ + amount],
                      db.purchases,
                      log_transaction(db.txlog, "transfer", amount),
                      "deposit_to_savings", 200, "none")

withdraw_from_savings(db, amount) ==
    LET w == db.wallet
    IN  IF amount <= 0 \/ w.savings_balance < amount
          THEN Reject(db, "withdraw_from_savings", "InsufficientFunds")
          ELSE Result([w EXCEPT !.savings_balance = @ - amount,
                                !.balance = @ + amount],
                      db.purchases,
                      log_transaction(db.txlog, "withdraw", amount),
                      "withdraw_from_savings", 200, "none")

Min(a, b) ==
    IF a < b THEN a ELSE b

Max(a, b) ==
    IF a > b THEN a ELSE b

\* variant: the -15 adjustment is not held at 300
update_credit_score_unclamped(w) ==
    LET s1 == IF w.credit_balance = 0
                THEN Min(w.credit_score + 10, MaxScore)
              ELSE IF 10 * w.credit_balance > 8 * w.credit_limit
                THEN w.credit_score - 15
              ELSE IF 10 * w.credit_balance < 5 * w.credit_limit
                THEN Min(w.credit_score + 5, MaxScore)
              ELSE w.credit_score
        s2 == IF 10 * w.savings_balance > 5 * w.credit_balance
                THEN Min(s1 + 3, MaxScore)
                ELSE s1
    IN  [w EXCEPT !.credit_score = s2]

\* Wallet.update_credit_score: credit_limit * Decimal("0.8") etc. are compared
\* exactly, so the comparisons are done on 10 * cents.
update_credit_score(w) ==
    LET s1 == IF w.credit_balance = 0
                THEN Min(w.credit_score + 10, MaxScore)
              ELSE IF 10 * w.credit_balance > 8 * w.credit_limit
                THEN Max(w.credit_score - 15, MinScore)
              ELSE IF 10 * w.credit_balance < 5 * w.credit_limit
                THEN Min(w.credit_score + 5, MaxScore)
              ELSE w.credit_score
        s2 == IF 10 * w.savings_balance > 5 * w.credit_balance
                THEN Min(s1 + 3, MaxScore)
                ELSE s1
    IN  [w EXCEPT !.credit_score = s2]

\* request_limit_increase: credit_limit *= Decimal("1.2"); the column keeps
\* 2 decimal places.
request_limit_increase(db) ==
    LET w == db.wallet
    IN  IF w.credit_score < LimitIncreaseScore
          THEN Reject(db, "request_limit_increase", "ScoreTooLow")
          ELSE Result([w EXCEPT !.credit_limit = Quantize(@ * 12, 10)],
                      db.purchases,
                      log_transaction(db.txlog, "limit_increase", 0),
                      "request_limit_increase", 200, "none")

-----------------------------------------------------------------------------
\* Credit lines

NewPurchase(amount, down_payment, credit_principal, due_date) ==
    [total_amount |-> amount, down_payment |-> down_payment,
     credit_amount |-> credit_principal, remaining_amount |-> credit_principal,
     interest_rate |-> InterestRate, penalty_rate |-> PenaltyRate,
     due_date |-> due_date, status |-> "ACTIVE", is_paid |-> FALSE]

\* variant: a fraction of a cent of interest is charged as a whole cent
Interest_rounded_up(principal_due) ==
    (principal_due * 5 + 99) \div 100

\* interest = (principal_due * Decimal("0.05")).quantize(Decimal("0.01"))
Interest(principal_due) ==
    Quantize(principal_due * 5, 100)

\* variant: a week that has begun counts as a week
Penalty_started_weeks(principal_due, due_date, day) ==
    IF day > due_date
      THEN Quantize(principal_due * ((day - due_date + 6) \div 7), 100)
      ELSE 0

\* penalty: 1% of the principal per full week after due_date
Penalty(principal_due, due_date, day) ==
    IF day > due_date /\ (day - due_date) \div 7 > 0
      THEN Quantize(principal_due * ((day - due_date) \div 7), 100)
      ELSE 0

\* variant: the interest is left out of the amount due
total_due_now_no_interest(principal_due, due_date, day) ==
    principal_due + Penalty(principal_due, due_date, day)

total_due_now(principal_due, due_date, day) ==
    principal_due + Interest(principal_due) + Penalty(principal_due, due_date, day)

\* --- (principal_due * (remaining_payment / total_due_now)).quantize(0.01) ---
\* Decimal works with 28 significant digits: the quotient is rounded to 28
\* digits, the product is rounded to 28 digits, then quantize rounds half-even.
\* That differs from rounding the exact value p*r/t only when p*r/t is exactly
\* half a cent and the quotient r/t does not terminate within 28 digits.

RECURSIVE LeadPos(_, _, _)
\* position of the first significant digit of x/t after the decimal point
LeadPos(x, t, j) ==
    IF x * 10 >= t THEN j ELSE LeadPos(x * 10, t, j + 1)

RECURSIVE LongDiv(_, _, _, _)
\* n more digits of the long division x/t: the remainder and the last digit
LongDiv(x, q, t, n) ==
    IF n = 0 THEN [rem |-> x, digit |-> q]
    ELSE LongDiv((x * 10) % t, (x * 10) \div t, t, n - 1)

RECURSIVE Digits(_)
Digits(n) ==
    IF n < 10 THEN 1 ELSE 1 + Digits(n \div 10)

RECURSIVE Pow10(_)
Pow10(d) ==
    IF d = 0 THEN 1 ELSE 10 * Pow10(d - 1)

\* variant: the fraction of a cent is cut off
principal_paid_floor(p, r, t) ==
    (p * r) \div t

principal_paid(p, r, t) ==
    LET k   == (p * r) \div t
        tie == 2 * ((p * r) % t) = t
        j   == LeadPos(r, t, 1)
        ld  == LongDiv(r, 0, t, 27 + j)
        up  == 2 * ld.rem > t \/ (2 * ld.rem = t /\ ld.digit % 2 = 1)
        err == IF up THEN t - ld.rem ELSE ld.rem
        d   == Digits(10 * k + 5) + j - 2
        snap == d >= 5 \/ Pow10(d) > p \/ 2 * p * err <= Pow10(d) * t
    IN  IF ~tie \/ ld.rem = 0 \/ snap THEN Quantize(p * r, t)
        ELSE IF up THEN k + 1 ELSE k

-----------------------------------------------------------------------------
\* make_credit_purchase (POST)

\* the validation chain; "none" when the purchase is accepted
purchase_error(w, amount, down_payment) ==
    IF amount <= 0 THEN "InvalidAmount"
    ELSE IF down_payment < Quantize(amount * 20, 100) THEN "DownPaymentTooLow"
    ELSE IF w.balance < down_payment THEN "InsufficientFunds"
    ELSE IF amount - down_payment <= 0 THEN "DownPaymentCoversFull"
    ELSE IF w.credit_balance + (amount - down_payment) > w.credit_limit
      THEN "CreditLimitExceeded"
    ELSE "none"

\* variant: the whole price is booked as debt
purchase_debit_total(w, down_payment, credit_principal) ==
    [w EXCEPT !.balance = @ - down_payment,
              !.credit_balance = @ + credit_principal + down_payment]

\* wallet.balance -= down_payment; wallet.credit_balance += credit_principal
purchase_debit(w, down_payment, credit_principal) ==
    [w EXCEPT !.balance = @ - down_payment,
              !.credit_balance = @ + credit_principal]

purchase_log(log, down_payment, credit_principal) ==
    log_transaction(log_transaction(log, "credit_purchase", credit_principal),
                    "withdraw", down_payment)

\* variant: the wallet is saved before the credit limit is checked
make_credit_purchase_late_check(db, day, amount, down_payment) ==
    LET err == purchase_error(db.wallet, amount, down_payment)
        credit_principal == amount - down_payment
    IN  IF err = "CreditLimitExceeded"
          THEN Result(purchase_debit(db.wallet, down_payment, credit_principal),
                      db.purchases, db.txlog, "make_credit_purchase", 400, err)
        ELSE IF err # "none" THEN Reject(db, "make_credit_purchase", err)
        ELSE Result(purchase_debit(db.wallet, down_payment, credit_principal),
                    Append(db.purchases,
                           NewPurchase(amount, down_payment, credit_principal,
                                       day + TermDays)),
                    purchase_log(db.txlog, down_payment, credit_principal),
                    "make_credit_purchase", 201, "none")

make_credit_purchase(db, day, amount, down_payment) ==
    LET err == purchase_error(db.wallet, amount, down_payment)
        credit_principal == amount - down_payment
    IN  IF err # "none" THEN Reject(db, "make_credit_purchase", err)
        ELSE Result(purchase_debit(db.wallet, down_payment, credit_principal),
                    Append(db.purchases,
                           NewPurchase(amount, down_payment, credit_principal,
                                       day + TermDays)),
                    purchase_log(db.txlog, down_payment, credit_principal),
                    "make_credit_purchase", 201, "none")

-----------------------------------------------------------------------------
\* CreditPurchaseView.post (api.py): the purchase endpoint of the API layer

\* CreditPurchase.objects.create(...) without remaining_amount: the column
\* takes its default 0; status and is_paid take "ACTIVE" and False
NewApiPurchase(total_amount, down_payment, credit_amount, due_date) ==
    [total_amount |-> total_amount, down_payment |-> down_payment,
     credit_amount |-> credit_amount, remaining_amount |-> 0,
     interest_rate |-> InterestRate, penalty_rate |-> PenaltyRate,
     due_date |-> due_date, status |-> "ACTIVE", is_paid |-> FALSE]

\* down_payment = total_amount * (down_payment_percent / 100); the requests of
\* the model make it a whole number of cents
api_down_payment(total_amount, down_payment_percent) ==
    (total_amount * down_payment_percent) \div 100

\* the two checks of the endpoint; "none" when the purchase is accepted
api_purchase_error(w, total_amount, down_payment_percent) ==
    IF total_amount <= 0 THEN "InvalidAmount"
    ELSE IF w.balance < api_down_payment(total_amount, down_payment_percent)
      THEN "InsufficientFunds"
    ELSE "none"

CreditPurchaseView_post(db, day, total_amount, down_payment_percent) ==
    LET err == api_purchase_error(db.wallet, total_amount, down_payment_percent)
        down_payment == api_down_payment(total_amount, down_payment_percent)
        credit_amount == total_amount - down_payment
    IN  IF err # "none" THEN Reject(db, "credit_purchase_view", err)
        ELSE Result([db.wallet EXCEPT !.balance = @ - down_payment,
                                      !.credit_balance = @ + credit_amount],
                    Append(db.purchases,
                           NewApiPurchase(total_amount, down_payment,
                                          credit_amount, day + TermDays)),
                    log_transaction(db.txlog, "credit_purchase", total_amount),
                    "credit_purchase_view", 201, "none")

-----------------------------------------------------------------------------
\* repay_credit

\* variant: CreditPurchase.objects.filter(user=...), paid rows included
Unpaid_all_rows(ps) ==
    DOMAIN ps

\* CreditPurchase.objects.filter(user=..., is_paid=False)
Unpaid(ps) ==
    {i \in DOMAIN ps : ~ps[i].is_paid}

\* variant: .order_by("-due_date")
DueDateOrdersDesc(ps) ==
    LET ids == Unpaid(ps)
        n   == Cardinality(ids)
    IN  {o \in [1..n -> ids] :
            /\ \A a, b \in 1..n : a # b => o[a] # o[b]
            /\ \A a, b \in 1..n : a < b => ps[o[a]].due_date >= ps[o[b]].due_date}

\* .order_by("due_date"): every order of the unpaid rows that is ascending in
\* due_date (the database is free in the order of rows with equal due_date)
DueDateOrders(ps) ==
    LET ids == Unpaid(ps)
        n   == Cardinality(ids)
    IN  {o \in [1..n -> ids] :
            /\ \A a, b \in 1..n : a # b => o[a] # o[b]
            /\ \A a, b \in 1..n : a < b => ps[o[a]].due_date <= ps[o[b]].due_date}

\* variant: the balance is not compared with the amount
repay_error_no_balance_check(w, amount) ==
    IF amount <= 0 THEN "InvalidAmount"
    ELSE "none"

\* the amount and balance checks made before the queryset is built
repay_error(w, amount) ==
    IF amount <= 0 THEN "InvalidAmount"
    ELSE IF w.balance < amount THEN "InsufficientFunds"
    ELSE "none"

\* variant: a partial payment is added to the remaining amount
settle_sign_slip(w, row, remaining_payment, day) ==
    LET principal_due == row.remaining_amount
        due == total_due_now(principal_due, row.due_date, day)
        paid == principal_paid(principal_due, remaining_payment, due)
    IN  IF principal_due <= 0
          THEN [wallet |-> w,
                row |-> [row EXCEPT !.is_paid = TRUE, !.status = "PAID"],
                remaining_payment |-> remaining_payment]
        ELSE IF remaining_payment >= due
          THEN [wallet |-> [w EXCEPT !.credit_balance = @ - principal_due,
                                     !.credit_score = Min(@ + 10, MaxScore)],
                row |-> [row EXCEPT !.remaining_amount = 0,
                                    !.is_paid = TRUE, !.status = "PAID"],
                remaining_payment |-> remaining_payment - due]
        ELSE [wallet |-> [w EXCEPT !.credit_balance = @ - paid,
                                   !.credit_score = Min(@ + 3, MaxScore)],
              row |-> [row EXCEPT !.remaining_amount = principal_due + paid],
              remaining_payment |-> 0]

\* one pass of the body of "for purchase in purchases" (remaining_payment > 0):
\* the in-memory wallet, the row that purchase.save() writes, and what is left
settle(w, row, remaining_payment, day) ==
    LET principal_due == row.remaining_amount
        due == total_due_now(principal_due, row.due_date, day)
        paid == principal_paid(principal_due, remaining_payment, due)
    IN  IF principal_due <= 0
          THEN [wallet |-> w,
                row |-> [row EXCEPT !.is_paid = TRUE, !.status = "PAID"],
                remaining_payment |-> remaining_payment]
        ELSE IF remaining_payment >= due
          THEN [wallet |-> [w EXCEPT !.credit_balance = @ - principal_due,
                                     !.credit_score = Min(@ + 10, MaxScore)],
                row |-> [row EXCEPT !.remaining_amount = 0,
                                    !.is_paid = TRUE, !.status = "PAID"],
                remaining_payment |-> remaining_payment - due]
        ELSE [wallet |-> [w EXCEPT !.credit_balance = @ - paid,
                                   !.credit_score = Min(@ + 3, MaxScore)],
              row |-> [row EXCEPT !.remaining_amount = principal_due - paid],
              remaining_payment |-> 0]

RECURSIVE allocate_whole_amount(_, _, _, _, _, _)
\* variant: every line is offered the whole payment
allocate_whole_amount(w, ps, order, i, remaining_payment, day) ==
    IF i > Len(order) \/ remaining_payment <= 0
      THEN [wallet |-> w, purchases |-> ps]
      ELSE LET s == settle(w, ps[order[i]], remaining_payment, day)
           IN  allocate_whole_amount(s.wallet, [ps EXCEPT ![order[i]] = s.row],
                                     order, i + 1, remaining_payment, day)

RECURSIVE allocate(_, _, _, _, _, _)
\* the whole loop over the ordered rows, from position i on
allocate(w, ps, order, i, remaining_payment, day) ==
    IF i > Len(order) \/ remaining_payment <= 0
      THEN [wallet |-> w, purchases |-> ps]
      ELSE LET s == settle(w, ps[order[i]], remaining_payment, day)
           IN  allocate(s.wallet, [ps EXCEPT ![order[i]] = s.row], order,
                        i + 1, s.remaining_payment, day)

\* variant: only the principal that was repaid is taken from the balance
repay_credit_principal_only(db, day, amount, order) ==
    LET err == repay_error(db.wallet, amount)
        a == allocate(db.wallet, db.purchases, order, 1, amount, day)
    IN  IF err # "none" THEN Reject(db, "repay_credit", err)
        ELSE IF Len(order) = 0 THEN Reject(db, "repay_credit", "NoActiveCredit")
        ELSE Result([a.wallet EXCEPT !.balance = @ - (db.wallet.credit_balance
                                                      - a.wallet.credit_balance)],
                    a.purchases,
                    log_transaction(db.txlog, "repay", amount),
                    "repay_credit", 200, "none")

repay_credit(db, day, amount, order) ==
    LET err == repay_error(db.wallet, amount)
        a == allocate(db.wallet, db.purchases, order, 1, amount, day)
    IN  IF err # "none" THEN Reject(db, "repay_credit", err)
        ELSE IF Len(order) = 0 THEN Reject(db, "repay_credit", "NoActiveCredit")
        ELSE Result([a.wallet EXCEPT !.balance = @ - amount],
                    a.purchases,
                    log_transaction(db.txlog, "repay", amount),
                    "repay_credit", 200, "none")

-----------------------------------------------------------------------------
\* Requests of the model (cents)

Workers ==
    {1, 2}

InitScores ==
    {300, 600, 990}

DepositAmounts ==
    {0, 25000}

Targets ==
    {"wallet", "savings"}

Changes ==
    {0, -5000, 5000}

TransferAmounts ==
    {0, 5000}

\* <<amount, down_payment>>
PurchaseInputs ==
    {<<0, 0>>, <<10000, 1000>>, <<10000, 2000>>, <<10000, 10000>>, <<52000, 10400>>}

RepayAmounts ==
    {0, 5600, 10000}

TickDays ==
    7

NoResponse ==
    Response("none", 0, "none")

NoRequest ==
    [op |-> "none"]

-----------------------------------------------------------------------------
\* Spec: requests served one at a time, each handler one atomic action

Init ==
    /\ \E s \in InitScores : wallet = NewWallet(0, s)
    /\ purchases = <<>>
    /\ txlog = <<>>
    /\ today = 0
    /\ last = NoRequest
    /\ resp = NoResponse
    /\ nops = 0
    /\ pc = [w \in Workers |-> "idle"]
    /\ req = [w \in Workers |-> NoRequest]
    /\ lw = [w \in Workers |-> NewWallet(0, 0)]
    /\ lp = [w \in Workers |-> <<>>]
    /\ li = [w \in Workers |-> 0]
    /\ rp = [w \in Workers |-> 0]
    /\ wresp = [w \in Workers |-> NoResponse]
    /\ base = DB(wallet, purchases, txlog)

CurrentDB ==
    DB(wallet, purchases, txlog)

\* a handler ran from start to end
Serve(rq, r) ==
    /\ nops < MaxOps
    /\ last' = rq
    /\ wallet' = r.wallet
    /\ purchases' = r.purchases
    /\ txlog' = r.txlog
    /\ resp' = r.resp
    /\ nops' = nops + 1
    /\ UNCHANGED <<today, workervars>>

Deposit ==
    \E amount \in DepositAmounts, target \in Targets :
        Serve([op |-> "deposit", amount |-> amount, target |-> target],
              deposit(CurrentDB, amount, target))

UpdateWalletBalance ==
    \E change \in Changes :
        Serve([op |-> "update_wallet_balance", change |-> change],
              update_wallet_balance(CurrentDB, change))

DepositToSavings ==
    \E amount \in TransferAmounts :
        Serve([op |-> "deposit_to_savings", amount |-> amount],
              deposit_to_savings(CurrentDB, amount))

WithdrawFromSavings ==
    \E amount \in TransferAmounts :
        Serve([op |-> "withdraw_from_savings", amount |-> amount],
              withdraw_from_savings(CurrentDB, amount))

MakeCreditPurchase ==
    \E inp \in PurchaseInputs :
        Serve([op |-> "make_credit_purchase", amount |-> inp[1],
               down_payment |-> inp[2]],
              make_credit_purchase(CurrentDB, today, inp[1], inp[2]))

RepayCredit ==
    \E amount \in RepayAmounts, order \in DueDateOrders(purchases) :
        Serve([op |-> "repay_credit", amount |-> amount],
              repay_credit(CurrentDB, today, amount, order))

\* variant: the command visits the wallet twice
UpdateCreditScoreTwice ==
    Serve([op |-> "update_credit_score"],
          Result(update_credit_score(update_credit_score(wallet)), purchases,
                 txlog, "update_credit_score", 200, "none"))

\* the update_credit_scores management command: wallet.update_credit_score()
UpdateCreditScore ==
    Serve([op |-> "update_credit_score"],
          Result(update_credit_score(wallet), purchases, txlog,
                 "update_credit_score", 200, "none"))

RequestLimitIncrease ==
    Serve([op |-> "request_limit_increase"],
          request_limit_increase(CurrentDB))

\* time passes
Tick ==
    /\ today + TickDays <= MaxDay
    /\ today' = today + TickDays
    /\ UNCHANGED <<dbvars, last, resp, nops, workervars>>

Next ==
    \/ Deposit
    \/ UpdateWalletBalance
    \/ DepositToSavings
    \/ WithdrawFromSavings
    \/ MakeCreditPurchase
    \/ RepayCredit
    \/ UpdateCreditScore
    \/ RequestLimitIncrease
    \/ Tick

Spec ==
    Init /\ [][Next]_vars

-----------------------------------------------------------------------------
\* SpecApi: the serial requests of Spec and the purchase endpoint of api.py

\* <<total_amount, down_payment_percent>>
ApiPurchaseInputs ==
    {<<0, 20>>, <<10000, 10>>, <<10000, 100>>, <<60000, 20>>}

CreditPurchaseViewPost ==
    \E inp \in ApiPurchaseInputs :
        Serve([op |-> "credit_purchase_view", amount |-> inp[1],
               down_payment |-> api_down_payment(inp[1], inp[2])],
              CreditPurchaseView_post(CurrentDB, today, inp[1], inp[2]))

NextApi ==
    \/ Next
    \/ CreditPurchaseViewPost

SpecApi ==
    Init /\ [][NextApi]_vars

-----------------------------------------------------------------------------
\* SpecList: the serial requests of Spec and the listing of open credit
\* lines, the GET branch of make_credit_purchase

\* total_due_preview = (p.remaining_amount * (1 + 0.01 * overdue_weeks))
\* .quantize(0.01), overdue_weeks = max(0, overdue_days // 7)
total_due_preview(row, day) ==
    LET overdue_weeks == Max(0, (day - row.due_date) \div 7)
    IN  Quantize(row.remaining_amount * (100 + overdue_weeks), 100)

\* the GET branch: one result per unpaid line, nothing is saved
credit_purchase_list(db, day) ==
    [wallet |-> db.wallet, purchases |-> db.purchases, txlog |-> db.txlog,
     resp |-> [op |-> "credit_purchase_list", status |-> 200, error |-> "none",
               results |-> [i \in Unpaid(db.purchases) |->
                              total_due_preview(db.purchases[i], day)]]]

CreditPurchaseList ==
    Serve([op |-> "credit_purchase_list"],
          credit_purchase_list(CurrentDB, today))

NextList ==
    \/ Next
    \/ CreditPurchaseList

SpecList ==
    Init /\ [][NextList]_vars

-----------------------------------------------------------------------------
\* SpecShop: the serial requests of Spec and the two checkout endpoints of the
\* store (orders/views.py create_order, orders/api.py OrderViewSet.create).
\* A cart is n_items items of one price, quantity 1.  The Order and OrderItem
\* rows a checkout inserts are read by no wallet handler and are left out; the
\* user holds no reward points (KudiPoints.balance at its default 0).

\* create_order: 30% down, the rest plus 5% interest is booked as credit
create_order(db, n_items, price, payment_method) ==
    LET w == db.wallet
        total_amount == n_items * price
        down_payment == (total_amount * 30) \div 100
        remaining == total_amount - down_payment
        interest == (remaining * 5) \div 100
        total_credit == remaining + interest
    IN  IF n_items = 0 THEN Reject(db, "create_order", "NoItems")
        ELSE IF payment_method = "wallet"
          THEN IF w.balance < total_amount
                 THEN Reject(db, "create_order", "InsufficientFunds")
                 ELSE Result([w EXCEPT !.balance = @ - total_amount],
                             db.purchases, db.txlog, "create_order", 201, "none")
        ELSE IF payment_method = "credit"
          THEN IF w.balance < down_payment
                 THEN Reject(db, "create_order", "InsufficientFunds")
               ELSE IF w.credit_balance + total_credit > w.credit_limit
                 THEN Reject(db, "create_order", "CreditLimitExceeded")
               ELSE Result([w EXCEPT !.balance = @ - down_payment,
                                     !.credit_balance = @ + total_credit],
                           db.purchases, db.txlog, "create_order", 201, "none")
        ELSE Reject(db, "create_order", "InvalidPaymentMethod")

\* OrderViewSet.create: the whole total is booked as credit
OrderViewSet_create(db, n_items, price, payment_method) ==
    LET w == db.wallet
        total == n_items * price
    IN  IF n_items = 0 THEN Reject(db, "order_viewset_create", "NoItems")
        ELSE IF payment_method = "wallet"
          THEN IF w.balance < total
                 THEN Reject(db, "order_viewset_create", "InsufficientFunds")
                 ELSE Result([w EXCEPT !.balance = @ - total],
                             db.purchases, db.txlog,
                             "order_viewset_create", 201, "none")
        ELSE IF payment_method = "credit"
          THEN Result([w EXCEPT !.credit_balance = @ + total],
                      db.purchases, db.txlog, "order_viewset_create", 201, "none")
        ELSE Reject(db, "order_viewset_create", "InvalidPaymentMethod")

\* <<n_items, price, payment_method>>
OrderInputs ==
    {<<0, 10000, "wallet">>, <<1, 10000, "wallet">>, <<1, 10000, "credit">>,
     <<1, 60000, "credit">>, <<1, 10000, "cash">>}

CreateOrder ==
    \E inp \in OrderInputs :
        Serve([op |-> "create_order", amount |-> inp[1] * inp[2],
               payment_method |-> inp[3]],
              create_order(CurrentDB, inp[1], inp[2], inp[3]))

OrderViewSetCreate ==
    \E inp \in OrderInputs :
        Serve([op |-> "order_viewset_create", amount |-> inp[1] * inp[2],
               payment_method |-> inp[3]],
              OrderViewSet_create(CurrentDB, inp[1], inp[2], inp[3]))

NextShop ==
    \/ Next
    \/ CreateOrder
    \/ OrderViewSetCreate

SpecShop ==
    Init /\ [][NextShop]_vars

-----------------------------------------------------------------------------
\* SpecWalletApi: SpecApi and the repayment endpoint of api.py

\* CreditPurchase.objects.filter(user=..., status="Pending")
Pending(ps) ==
    {i \in DOMAIN ps : ps[i].status = "Pending"}

\* RepayCreditView.post.  With a "Pending" row the handler reaches
\* "total_due += purchase.total_due", where total_due is a method of the
\* model: the addition raises TypeError before anything is saved.
RepayCreditView_post(db, amount) ==
    IF amount <= 0 THEN Reject(db, "repay_credit_view", "InvalidAmount")
    ELSE IF db.wallet.balance < amount
      THEN Reject(db, "repay_credit_view", "InsufficientFunds")
    ELSE IF Pending(db.purchases) = {}
      THEN Reject(db, "repay_credit_view", "NoActiveCredit")
    ELSE Result(db.wallet, db.purchases, db.txlog,
                "repay_credit_view", 500, "TypeError")

ApiRepayAmounts ==
    {0, 5600}

RepayCreditViewPost ==
    \E amount \in ApiRepayAmounts :
        Serve([op |-> "repay_credit_view", amount |-> amount],
              RepayCreditView_post(CurrentDB, amount))

NextWalletApi ==
    \/ NextApi
    \/ RepayCreditViewPost

SpecWalletApi ==
    Init /\ [][NextWalletApi]_vars

-----------------------------------------------------------------------------
\* The handlers split at their database accesses.  A worker reads the Wallet
\* row into memory when its request starts; every save() writes the whole
\* in-memory object back, every create() inserts one row.  The requests of a
\* round are admitted from the database state "base" and may interleave.

\* requests served by the workers
ConcRequests ==
    {[op |-> "deposit", amount |-> 25000, target |-> "wallet"],
     [op |-> "make_credit_purchase", amount |-> 10000, down_payment |-> 2000],
     [op |-> "make_credit_purchase", amount |-> 52000, down_payment |-> 10400],
     [op |-> "repay_credit", amount |-> 5600]}

\* the checks a handler makes on the wallet it has just read
request_error(w, rq) ==
    CASE rq.op = "deposit" -> IF rq.amount <= 0 THEN "InvalidAmount" ELSE "none"
      [] rq.op = "make_credit_purchase" ->
            purchase_error(w, rq.amount, rq.down_payment)
      [] rq.op = "repay_credit" -> repay_error(w, rq.amount)

\* the first database access after the checks
FirstStep(rq) ==
    CASE rq.op = "deposit" -> "d_save"
      [] rq.op = "make_credit_purchase" -> "p_save"
      [] rq.op = "repay_credit" -> "r_exists"

Finish(w, st, err) ==
    /\ pc' = [pc EXCEPT ![w] = "done"]
    /\ wresp' = [wresp EXCEPT ![w] = Response(req[w].op, st, err)]

Goto(w, label) ==
    /\ pc' = [pc EXCEPT ![w] = label]
    /\ UNCHANGED wresp

\* wallet, _ = Wallet.objects.get_or_create(user=request.user) and the checks
Start(w) ==
    /\ pc[w] = "idle"
    /\ nops < MaxRounds
    /\ \E rq \in ConcRequests :
          /\ req' = [req EXCEPT ![w] = rq]
          /\ lw' = [lw EXCEPT ![w] = wallet]
          /\ IF request_error(wallet, rq) # "none"
               THEN /\ pc' = [pc EXCEPT ![w] = "done"]
                    /\ wresp' = [wresp EXCEPT ![w] =
                                   Response(rq.op, 400, request_error(wallet, rq))]
               ELSE Goto(w, FirstStep(rq))
    /\ UNCHANGED <<dbvars, today, last, resp, nops, lp, li, rp, base>>

\* deposit: wallet.balance += amount; wallet.save()
DepositSave(w) ==
    /\ pc[w] = "d_save"
    /\ lw' = [lw EXCEPT ![w].balance = @ + req[w].amount]
    /\ wallet' = lw'[w]
    /\ Goto(w, "d_log")
    /\ UNCHANGED <<purchases, txlog, today, last, resp, nops, req, lp, li, rp, base>>

\* deposit: log_transaction(...)
DepositLog(w) ==
    /\ pc[w] = "d_log"
    /\ txlog' = log_transaction(txlog, "deposit", req[w].amount)
    /\ Finish(w, 200, "none")
    /\ UNCHANGED <<wallet, purchases, today, last, resp, nops, req, lw, lp, li, rp, base>>

\* make_credit_purchase: debit the in-memory wallet; wallet.save()
PurchaseSave(w) ==
    /\ pc[w] = "p_save"
    /\ lw' = [lw EXCEPT ![w] = purchase_debit(@, req[w].down_payment,
                                              req[w].amount - req[w].down_payment)]
    /\ wallet' = lw'[w]
    /\ Goto(w, "p_create")
    /\ UNCHANGED <<purchases, txlog, today, last, resp, nops, req, lp, li, rp, base>>

\* make_credit_purchase: CreditPurchase.objects.create(...)
PurchaseCreate(w) ==
    /\ pc[w] = "p_create"
    /\ purchases' = Append(purchases,
                           NewPurchase(req[w].amount, req[w].down_payment,
                                       req[w].amount - req[w].down_payment,
                                       today + TermDays))
    /\ Goto(w, "p_log1")
    /\ UNCHANGED <<wallet, txlog, today, last, resp, nops, req, lw, lp, li, rp, base>>

\* make_credit_purchase: log_transaction(..., "credit_purchase", ...)
PurchaseLogPrincipal(w) ==
    /\ pc[w] = "p_log1"
    /\ txlog' = log_transaction(txlog, "credit_purchase",
                                req[w].amount - req[w].down_payment)
    /\ Goto(w, "p_log2")
    /\ UNCHANGED <<wallet, purchases, today, last, resp, nops, req, lw, lp, li, rp, base>>

\* make_credit_purchase: log_transaction(..., "withdraw", down_payment)
PurchaseLogDown(w) ==
    /\ pc[w] = "p_log2"
    /\ txlog' = log_transaction(txlog, "withdraw", req[w].down_payment)
    /\ Finish(w, 201, "none")
    /\ UNCHANGED <<wallet, purchases, today, last, resp, nops, req, lw, lp, li, rp, base>>

\* repay_credit: if not purchases.exists()
RepayExists(w) ==
    /\ pc[w] = "r_exists"
    /\ IF Unpaid(purchases) = {}
         THEN Finish(w, 400, "NoActiveCredit")
         ELSE Goto(w, "r_fetch")
    /\ UNCHANGED <<dbvars, today, last, resp, nops, req, lw, lp, li, rp, base>>

\* repay_credit: "for purchase in purchases" evaluates the queryset
RepayFetch(w) ==
    /\ pc[w] = "r_fetch"
    /\ \E order \in DueDateOrders(purchases) :
          lp' = [lp EXCEPT ![w] =
                   [k \in 1..Len(order) |->
                      [id |-> order[k], row |-> purchases[order[k]]]]]
    /\ li' = [li EXCEPT ![w] = 1]
    /\ rp' = [rp EXCEPT ![w] = req[w].amount]
    /\ Goto(w, "r_loop")
    /\ UNCHANGED <<dbvars, today, last, resp, nops, req, lw, base>>

\* repay_credit: one pass of the loop body, ending in purchase.save()
RepayLine(w) ==
    /\ pc[w] = "r_loop"
    /\ li[w] <= Len(lp[w])
    /\ rp[w] > 0
    /\ LET s == settle(lw[w], lp[w][li[w]].row, rp[w], today)
       IN  /\ purchases' = [purchases EXCEPT ![lp[w][li[w]].id] = s.row]
           /\ lw' = [lw EXCEPT ![w] = s.wallet]
           /\ rp' = [rp EXCEPT ![w] = s.remaining_payment]
    /\ li' = [li EXCEPT ![w] = @ + 1]
    /\ UNCHANGED <<wallet, txlog, today, last, resp, nops, pc, req, lp, wresp, base>>

\* repay_credit: after the loop, wallet.balance -= amount; wallet.save()
RepaySave(w) ==
    /\ pc[w] = "r_loop"
    /\ li[w] > Len(lp[w]) \/ rp[w] <= 0
    /\ lw' = [lw EXCEPT ![w].balance = @ - req[w].amount]
    /\ wallet' = lw'[w]
    /\ Goto(w, "r_log")
    /\ UNCHANGED <<purchases, txlog, today, last, resp, nops, req, lp, li, rp, base>>

\* repay_credit: log_transaction(..., "repay", amount, ...)
RepayLog(w) ==
    /\ pc[w] = "r_log"
    /\ txlog' = log_transaction(txlog, "repay", req[w].amount)
    /\ Finish(w, 200, "none")
    /\ UNCHANGED <<wallet, purchases, today, last, resp, nops, req, lw, lp, li, rp, base>>

\* positions at which the next statement writes to the database
WritePoints ==
    {"d_save", "d_log", "p_save", "p_create", "p_log1", "p_log2", "r_loop", "r_log"}

\* the statement raises (database error): "except Exception" answers 500;
\* what was saved before stays saved, nothing is rolled back
Fail(w) ==
    /\ pc[w] \in WritePoints
    /\ Finish(w, 500, "Exception")
    /\ UNCHANGED <<dbvars, today, last, resp, nops, req, lw, lp, li, rp, base>>

\* all admitted requests have returned; the next ones see this database
Settle ==
    /\ \A w \in Workers : pc[w] \in {"idle", "done"}
    /\ \E w \in Workers : pc[w] = "done"
    /\ pc' = [w \in Workers |-> "idle"]
    /\ req' = [w \in Workers |-> NoRequest]
    /\ lw' = [w \in Workers |-> NewWallet(0, 0)]
    /\ lp' = [w \in Workers |-> <<>>]
    /\ li' = [w \in Workers |-> 0]
    /\ rp' = [w \in Workers |-> 0]
    /\ wresp' = [w \in Workers |-> NoResponse]
    /\ base' = CurrentDB
    /\ nops' = nops + 1
    /\ UNCHANGED <<dbvars, today, last, resp>>

Step(w) ==
    \/ Start(w)
    \/ DepositSave(w)
    \/ DepositLog(w)
    \/ PurchaseSave(w)
    \/ PurchaseCreate(w)
    \/ PurchaseLogPrincipal(w)
    \/ PurchaseLogDown(w)
    \/ RepayExists(w)
    \/ RepayFetch(w)
    \/ RepayLine(w)
    \/ RepaySave(w)
    \/ RepayLog(w)

\* SpecConc: two workers serve requests of the same user at the same time
NextConc ==
    \/ \E w \in Workers : Step(w)
    \/ Settle

\* a wallet as Wallet.objects.get_or_create makes it
InitConc ==
    Init /\ wallet.credit_score = DefaultCreditScore

SpecConc ==
    InitConc /\ [][NextConc]_vars

\* SpecFail: one worker, and any database statement may raise
NextFail ==
    \/ Step(1)
    \/ Fail(1)
    \/ Settle

SpecFail ==
    InitConc /\ [][NextFail]_vars

-----------------------------------------------------------------------------
\* SpecLines: one worker serves the requests one after the other, each pass
\* of the repayment loop is a step of its own, and days pass between requests

\* requests served in SpecLines
LineRequests ==
    {[op |-> "deposit", amount |-> 25000, target |-> "wallet"],
     [op |-> "make_credit_purchase", amount |-> 10000, down_payment |-> 2000],
     [op |-> "make_credit_purchase", amount |-> 62, down_payment |-> 12],
     [op |-> "repay_credit", amount |-> 52],
     [op |-> "repay_credit", amount |-> 5600],
     [op |-> "repay_credit", amount |-> 10000]}

\* number of requests served in a run of SpecLines
MaxCalls ==
    4

\* days between two requests
PassDays ==
    {4, 7}

\* a request arrives while no other is being served
Call ==
    /\ pc[1] = "idle"
    /\ nops < MaxCalls
    /\ \E rq \in LineRequests :
          /\ req' = [req EXCEPT ![1] = rq]
          /\ lw' = [lw EXCEPT ![1] = wallet]
          /\ IF request_error(wallet, rq) # "none"
               THEN /\ pc' = [pc EXCEPT ![1] = "done"]
                    /\ wresp' = [wresp EXCEPT ![1] =
                                   Response(rq.op, 400, request_error(wallet, rq))]
               ELSE Goto(1, FirstStep(rq))
    /\ UNCHANGED <<dbvars, today, last, resp, nops, lp, li, rp, base>>

\* time passes between two requests
Pass ==
    /\ pc[1] = "idle"
    /\ \E d \in PassDays :
          /\ today + d <= MaxDay
          /\ today' = today + d
    /\ UNCHANGED <<dbvars, last, resp, nops, workervars>>

NextLines ==
    \/ Call
    \/ DepositSave(1)
    \/ DepositLog(1)
    \/ PurchaseSave(1)
    \/ PurchaseCreate(1)
    \/ PurchaseLogPrincipal(1)
    \/ PurchaseLogDown(1)
    \/ RepayExists(1)
    \/ RepayFetch(1)
    \/ RepayLine(1)
    \/ RepaySave(1)
    \/ RepayLog(1)
    \/ Settle
    \/ Pass

SpecLines ==
    Init /\ [][NextLines]_vars

-----------------------------------------------------------------------------
\* Properties of serial executions (Spec)

RECURSIVE OpenRemaining(_)
\* sum of remaining_amount over the rows whose status is not PAID
OpenRemaining(ps) ==
    IF ps = <<>> THEN 0
    ELSE (IF Head(ps).status # "PAID" THEN Head(ps).remaining_amount ELSE 0)
         + OpenRemaining(Tail(ps))

\* a handler finished in this step
Served ==
    nops' = nops + 1

\* C2 - Conservation: after any sequence of purchases and repayments
\* wallet.credit_balance equals the sum of remaining_amount over the credit
\* lines whose status is not PAID.
C2_Conservation ==
    wallet.credit_balance = OpenRemaining(purchases)

\* a partial repayment has been applied and debt is still open
C2_Witness ==
    /\ last.op = "repay_credit"
    /\ resp.status = 200
    /\ wallet.credit_balance > 0
    /\ \E i \in DOMAIN purchases :
          /\ purchases[i].status = "ACTIVE"
          /\ purchases[i].remaining_amount < purchases[i].credit_amount

C4_OldestFirstStep ==
    (Served /\ last'.op = "repay_credit" /\ resp'.status = 200) =>
        \A i, j \in Unpaid(purchases) :
            LET a  == purchases[i]
                b  == purchases[j]
                da == total_due_now(a.remaining_amount, a.due_date, today)
                db == total_due_now(b.remaining_amount, b.due_date, today)
                left == last'.amount - da
            IN  (a.remaining_amount > 0 /\ b.remaining_amount > 0
                    /\ a.due_date < b.due_date) =>
                  /\ purchases'[j].remaining_amount < b.remaining_amount
                        => /\ purchases'[i].remaining_amount = 0
                           /\ purchases'[i].status = "PAID"
                  /\ (Cardinality(Unpaid(purchases)) = 2 /\ left >= 0 /\ left < db)
                        => /\ purchases'[i].remaining_amount = 0
                           /\ purchases'[i].status = "PAID"
                           /\ purchases'[j].status = "ACTIVE"
                           /\ purchases'[j].remaining_amount =
                                 IF left = 0 THEN b.remaining_amount
                                 ELSE b.remaining_amount
                                      - principal_paid(b.remaining_amount, left, db)

C5_Monotonic ==
    [][\A i \in DOMAIN purchases :
          purchases'[i].remaining_amount <= purchases[i].remaining_amount]_vars

\* a line was reduced twice: by a partial payment and then by a settlement
C5_Witness ==
    /\ last.op = "repay_credit"
    /\ resp.status = 200
    /\ Len(txlog) >= 2
    /\ txlog[Len(txlog) - 1].transaction_type = "repay"
    /\ \E i \in DOMAIN purchases :
          purchases[i].status = "PAID" /\ purchases[i].remaining_amount = 0

\* C6 - Score bounds: credit_score stays within [300, 1000] under repayments
\* and update_credit_score calls.
C6_ScoreBounds ==
    /\ wallet.credit_score >= MinScore
    /\ wallet.credit_score <= MaxScore

\* update_credit_score took its -15 branch on a wallet at the lower bound
C6_Witness ==
    /\ last.op = "update_credit_score"
    /\ 10 * wallet.credit_balance > 8 * wallet.credit_limit
    /\ 10 * wallet.savings_balance <= 5 * wallet.credit_balance
    /\ wallet.credit_score = MinScore

\* C7 - A purchase, repayment or balance update rejected by a validation
\* check leaves the wallet, every credit line and the transaction log as
\* they were.
C7_RejectedStep ==
    (/\ Served
     /\ last'.op \in {"make_credit_purchase", "repay_credit", "update_wallet_balance"}
     /\ resp'.status = 400)
        => UNCHANGED dbvars

C7_RejectionHasNoEffect ==
    [][C7_RejectedStep]_vars

\* a purchase was refused for exceeding the credit limit
C7_Witness ==
    /\ last.op = "make_credit_purchase"
    /\ resp.status = 400
    /\ resp.error = "CreditLimitExceeded"
    /\ wallet.credit_balance > 0

-----------------------------------------------------------------------------
\* Properties of concurrent requests (SpecConc)

\* the whole handler of request rq run alone on database db
Handle(db, rq, day, order) ==
    CASE rq.op = "deposit" -> deposit(db, rq.amount, rq.target)
      [] rq.op = "make_credit_purchase" ->
            make_credit_purchase(db, day, rq.amount, rq.down_payment)
      [] rq.op = "repay_credit" -> repay_credit(db, day, rq.amount, order)

\* the results of running rqA and then rqB, one after the other, from db
SerialResults(db, rqA, rqB, day) ==
    UNION {
        LET ra == Handle(db, rqA, day, oa)
        IN  {[first |-> ra.resp, second |-> rb.resp,
              wallet |-> rb.wallet, purchases |-> rb.purchases] :
                rb \in {Handle(DB(ra.wallet, ra.purchases, ra.txlog), rqB, day, ob) :
                          ob \in DueDateOrders(ra.purchases)}}
        : oa \in DueDateOrders(db.purchases)}

\* the same rows, whatever the order of their creation
SameRows(ps, qs) ==
    /\ Len(ps) = Len(qs)
    /\ \A i \in DOMAIN ps :
          Cardinality({k \in DOMAIN ps : ps[k] = ps[i]})
            = Cardinality({k \in DOMAIN qs : qs[k] = ps[i]})

\* the database and the two responses are those of some serial order
Serializable ==
    \/ \E r \in SerialResults(base, req[1], req[2], today) :
          /\ wresp[1] = r.first /\ wresp[2] = r.second
          /\ wallet = r.wallet /\ SameRows(purchases, r.purchases)
    \/ \E r \in SerialResults(base, req[2], req[1], today) :
          /\ wresp[2] = r.first /\ wresp[1] = r.second
          /\ wallet = r.wallet /\ SameRows(purchases, r.purchases)

BothDone ==
    \A w \in Workers : pc[w] = "done"

\* the unpaid lines of the admitted database and what they owe today
BaseDue ==
    {total_due_now(base.purchases[i].remaining_amount,
                   base.purchases[i].due_date, today) : i \in Unpaid(base.purchases)}

\* C1 - Two concurrent repayments of X against one open line owing 1.5 * X
\* end as the two repayments run one after the other: a partial payment, then
\* a payment on the reduced balance, cash debited by 2 * X, no write lost.
C1_ConcurrentRepayments ==
    (/\ BothDone
     /\ req[1].op = "repay_credit" /\ req[2].op = "repay_credit"
     /\ req[1].amount = req[2].amount
     /\ Cardinality(Unpaid(base.purchases)) = 1
     /\ \A d \in BaseDue : 2 * d = 3 * req[1].amount)
        => /\ Serializable
           /\ wallet.balance = base.wallet.balance - 2 * req[1].amount

\* C10 - Any two wallet operations running concurrently on one wallet end in
\* the state of some serial order of the two; two purchases that fit the
\* credit limit only one at a time do not both succeed.
C10_ConcurrentOperations ==
    (/\ BothDone
     /\ ~(req[1].op = "repay_credit" /\ req[2].op = "repay_credit"))
        => /\ Serializable
           /\ (/\ req[1].op = "make_credit_purchase"
               /\ req[2].op = "make_credit_purchase"
               /\ wresp[1].status = 201 /\ wresp[2].status = 201)
                 => base.wallet.credit_balance
                      + (req[1].amount - req[1].down_payment)
                      + (req[2].amount - req[2].down_payment)
                        <= base.wallet.credit_limit

-----------------------------------------------------------------------------
\* Properties of failing requests (SpecFail)

Failed(op) ==
    /\ pc[1] = "done"
    /\ req[1].op = op
    /\ wresp[1].status = 500

\* C8 - Purchase is all-or-nothing: when make_credit_purchase fails after its
\* validation checks, the cash debit, the credit_balance increase, the new
\* credit line and the two log entries are all absent.
C8_PurchaseAllOrNothing ==
    Failed("make_credit_purchase") =>
        /\ wallet = base.wallet
        /\ purchases = base.purchases
        /\ txlog = base.txlog

\* C9 - Repayment is all-or-nothing: when repay_credit raises, no credit line
\* keeps a reduced remaining_amount or PAID status unless the cash debit, the
\* credit_balance decrease and the repay log entry persist as well.
C9_RepaymentAllOrNothing ==
    (Failed("repay_credit") /\ purchases # base.purchases) =>
        /\ wallet.balance = base.wallet.balance - req[1].amount
        /\ wallet.credit_balance < base.wallet.credit_balance
        /\ Len(txlog) = Len(base.txlog) + 1
        /\ txlog[Len(txlog)].transaction_type = "repay"

-----------------------------------------------------------------------------
\* Properties of the purchase endpoints (SpecApi)

PurchaseOps ==
    {"make_credit_purchase", "credit_purchase_view"}

\* the error of the first failing check, in the order (a) to (e)
FirstFailingCheck(w, amount, down_payment) ==
    IF amount <= 0 THEN "InvalidAmount"
    ELSE IF down_payment < Quantize(amount * 20, 100) THEN "DownPaymentTooLow"
    ELSE IF w.balance < down_payment THEN "InsufficientFunds"
    ELSE IF amount - down_payment <= 0 THEN "DownPaymentCoversFull"
    ELSE IF w.credit_balance + (amount - down_payment) > w.credit_limit
      THEN "CreditLimitExceeded"
    ELSE "none"

\* C11 - Purchase validation is fail-fast in the order (a) price <= 0:
\* InvalidAmount, (b) down payment below 20% of the price: DownPaymentTooLow,
\* (c) balance below the down payment: InsufficientFunds, (d) principal <= 0:
\* DownPaymentCoversFull, (e) credit_balance + principal > credit_limit:
\* CreditLimitExceeded; the answer is the error of the first failing check and
\* the purchase succeeds only when none fails.
C11_ValidationStep ==
    (Served /\ last'.op \in PurchaseOps) =>
        LET err == FirstFailingCheck(wallet, last'.amount, last'.down_payment)
        IN  /\ resp'.error = err
            /\ (resp'.status = 201) <=> (err = "none")

C11_ValidationOrder ==
    [][C11_ValidationStep]_vars

\* C12 - A successful purchase with price T and down payment D (P = T - D)
\* decreases the balance by D, increases credit_balance by P, creates exactly
\* one credit line with remaining_amount = P, status ACTIVE and due_date =
\* today + 14 days, and appends exactly two log entries, one for the down
\* payment and one for the credit purchase.
C12_PurchaseStep ==
    (Served /\ last'.op \in PurchaseOps /\ resp'.status = 201) =>
        LET D == last'.down_payment
            P == last'.amount - D
            n == Len(purchases)
            k == Len(txlog)
        IN  /\ wallet'.balance = wallet.balance - D
            /\ wallet'.credit_balance = wallet.credit_balance + P
            /\ Len(purchases') = n + 1
            /\ SubSeq(purchases', 1, n) = purchases
            /\ purchases'[n + 1].remaining_amount = P
            /\ purchases'[n + 1].status = "ACTIVE"
            /\ purchases'[n + 1].due_date = today + 14
            /\ Len(txlog') = k + 2
            /\ SubSeq(txlog', 1, k) = txlog
            /\ {txlog'[k + 1], txlog'[k + 2]}
                 = {[transaction_type |-> "withdraw", amount |-> D],
                    [transaction_type |-> "credit_purchase", amount |-> P]}

C12_PurchaseEffects ==
    [][C12_PurchaseStep]_vars

\* the credit lines whose status is ACTIVE
ActiveLines(ps) ==
    {i \in DOMAIN ps : ps[i].status = "ACTIVE"}

\* C13 - Repayment preconditions are checked in order, each with its own
\* error: amount <= 0 gives InvalidAmount; else balance < amount gives
\* InsufficientFunds; else no ACTIVE credit line gives NoActiveCredit.  A
\* repayment is accepted only when the user has an ACTIVE credit line.
C13_RepayStep ==
    (Served /\ last'.op = "repay_credit") =>
        LET err == IF last'.amount <= 0 THEN "InvalidAmount"
                   ELSE IF wallet.balance < last'.amount THEN "InsufficientFunds"
                   ELSE IF ActiveLines(purchases) = {} THEN "NoActiveCredit"
                   ELSE "none"
        IN  /\ resp'.error = err
            /\ (resp'.status = 200) <=> (err = "none")

C13_RepayPreconditions ==
    [][C13_RepayStep]_vars

\* a repayment that the balance covers was refused because the only credit
\* line of the user is PAID
C13_Witness ==
    /\ last.op = "repay_credit"
    /\ resp.error = "NoActiveCredit"
    /\ wallet.balance >= last.amount
    /\ purchases # <<>>
    /\ \A i \in DOMAIN purchases : purchases[i].status = "PAID"

-----------------------------------------------------------------------------
\* Properties of the passes of the repayment loop (SpecLines)

\* this step is one pass of "for purchase in purchases"
LineStep ==
    pc[1] = "r_loop" /\ li'[1] = li[1] + 1

\* the line the pass works on
LineId ==
    lp[1][li[1]].id

\* remaining principal + interest + penalty of a line on a day, from the
\* rates stored on the line (in hundredths of a percent)
AmountDueNow(row, day) ==
    LET p == row.remaining_amount
    IN  p + Quantize(p * row.interest_rate, 10000)
          + (IF day > row.due_date
               THEN Quantize(p * row.penalty_rate * ((day - row.due_date) \div 7),
                             10000)
               ELSE 0)

\* a score raised by n, capped at 1000
Raised(score, n) ==
    IF score + n > 1000 THEN 1000 ELSE score + n

\* C14 - Full settlement: when the payment still unallocated is >= a line's
\* amount_due_now, the line ends with remaining_amount = 0 and status PAID,
\* the unallocated payment decreases by exactly amount_due_now, credit_balance
\* decreases by exactly the line's previous remaining principal, and
\* credit_score increases by 10 capped at 1000.
C14_FullSettlementStep ==
    LineStep =>
        LET row == purchases[LineId]
            due == AmountDueNow(row, today)
        IN  rp[1] >= due =>
              /\ purchases'[LineId].remaining_amount = 0
              /\ purchases'[LineId].status = "PAID"
              /\ rp'[1] = rp[1] - due
              /\ lw'[1].credit_balance = lw[1].credit_balance - row.remaining_amount
              /\ lw'[1].credit_score = Raised(lw[1].credit_score, 10)

C15_PartialSettlementStep ==
    LineStep =>
        LET row  == purchases[LineId]
            p    == row.remaining_amount
            due  == AmountDueNow(row, today)
            paid == p - purchases'[LineId].remaining_amount
        IN  /\ \A k \in 1..(li[1] - 1) : purchases[lp[1][k].id].status = "PAID"
            /\ (rp[1] > 0 /\ rp[1] < due) =>
                  /\ 2 * Abs(paid * due - p * rp[1]) <= due
                  /\ lw'[1].credit_balance = lw[1].credit_balance - paid
                  /\ purchases'[LineId].status = "ACTIVE"
                  /\ lw'[1].credit_score = Raised(lw[1].credit_score, 3)
                  /\ rp'[1] = 0
                  /\ \A i \in DOMAIN purchases :
                        i # LineId => purchases'[i] = purchases[i]

C15_PartialSettlement ==
    [][C15_PartialSettlementStep]_vars

\* one repayment settled the first line and paid part of the second, with a
\* principal_paid that was rounded up
C15_Witness ==
    /\ pc[1] = "r_loop"
    /\ li[1] = 3
    /\ rp[1] = 0
    /\ purchases[lp[1][1].id].status = "PAID"
    /\ purchases[lp[1][2].id].status = "ACTIVE"
    /\ LET p    == lp[1][2].row.remaining_amount
           left == req[1].amount - AmountDueNow(lp[1][1].row, today)
           due  == AmountDueNow(lp[1][2].row, today)
           paid == p - purchases[lp[1][2].id].remaining_amount
       IN  /\ left > 0
           /\ paid > 0
           /\ paid * due > p * left

\* C17 - For each line touched by a repayment, amount_due_now = remaining
\* principal + interest + penalty, with interest = round(principal * the
\* line's interest_rate / 100, 2) and penalty = round(principal * the line's
\* penalty_rate / 100 * w, 2), w = floor(days past due_date / 7) when today >
\* due_date and penalty = 0 otherwise; a line 1 to 6 days overdue accrues no
\* penalty.  The amount shows in what the pass does: the line is settled
\* exactly when the unallocated payment reaches it, a settlement takes exactly
\* it from the payment, and a partial payment is divided by it.
C17_AmountDueStep ==
    LineStep =>
        LET row      == purchases[LineId]
            after    == purchases'[LineId]
            p        == row.remaining_amount
            late     == today - row.due_date
            interest == Quantize(p * row.interest_rate, 100 * 100)
            penalty  == IF late > 0
                          THEN Quantize(p * row.penalty_rate * (late \div 7),
                                        100 * 100)
                          ELSE 0
            due      == p + interest + penalty
        IN  /\ (after.status = "PAID") <=> (rp[1] >= due)
            /\ after.status = "PAID" => rp'[1] = rp[1] - due
            /\ after.status = "ACTIVE" =>
                  2 * Abs((p - after.remaining_amount) * due - p * rp[1]) <= due
            /\ (late \in 1..6 /\ rp[1] >= p + interest) =>
                  /\ after.status = "PAID"
                  /\ rp'[1] = rp[1] - p - interest

C17_AmountDueNow ==
    [][C17_AmountDueStep]_vars

\* a line 1 to 6 days overdue was settled for its principal and interest
C17_Witness ==
    /\ pc[1] = "r_loop"
    /\ li[1] = 2
    /\ today - lp[1][1].row.due_date \in 1..6
    /\ lp[1][1].row.remaining_amount = 8000
    /\ purchases[lp[1][1].id].status = "PAID"
    /\ rp[1] = req[1].amount - 8400

\* n / d rounded to the nearest whole number, a half away from zero (n >= 0)
RoundHalfUp(n, d) ==
    (2 * n + d) \div (2 * d)

\* C18 - Every money amount computed by purchase and repayment (interest,
\* penalty, amount_due_now, principal_paid, new remaining balance) is rounded
\* to 2 decimal places half-up: a value whose third decimal is exactly 5
\* rounds away from zero (interest on a remaining principal of 0.50 at 5% is
\* 0.03).
C18_HalfUpStep ==
    LineStep =>
        LET row      == purchases[LineId]
            after    == purchases'[LineId]
            p        == row.remaining_amount
            late     == today - row.due_date
            interest == RoundHalfUp(p * 5, 100)
            penalty  == IF late > 0 THEN RoundHalfUp(p * (late \div 7), 100)
                        ELSE 0
            due      == p + interest + penalty
        IN  /\ (after.status = "PAID") <=> (rp[1] >= due)
            /\ after.status = "PAID" => rp'[1] = rp[1] - due
            /\ after.status = "ACTIVE" =>
                  after.remaining_amount = p - RoundHalfUp(p * rp[1], due)

C18_HalfUpRounding ==
    [][C18_HalfUpStep]_vars

\* C20 - PAID is terminal: once a credit line's status is PAID, no later
\* purchase, repayment or deposit changes its status, its remaining_amount or
\* any other field, and a later repayment never selects it for allocation.
C20_PaidStep ==
    /\ \A i \in DOMAIN purchases :
          purchases[i].status = "PAID" =>
              i \in DOMAIN purchases' /\ purchases'[i] = purchases[i]
    /\ \A k \in DOMAIN lp'[1] : lp'[1][k].row.status # "PAID"

C20_PaidIsTerminal ==
    [][C20_PaidStep]_vars

\* after a line was settled, a repayment that the balance covers found no
\* line to allocate to
C20_Witness ==
    /\ pc[1] = "done"
    /\ req[1].op = "repay_credit"
    /\ wresp[1].error = "NoActiveCredit"
    /\ \E i \in DOMAIN purchases :
          purchases[i].status = "PAID" /\ purchases[i].remaining_amount = 0

-----------------------------------------------------------------------------
\* Properties of whole repayments (SpecApi)

RECURSIVE TotalDue(_, _)
\* the sum of amount_due_now over the ACTIVE lines
TotalDue(ps, day) ==
    IF ps = <<>> THEN 0
    ELSE (IF Head(ps).status = "ACTIVE" THEN AmountDueNow(Head(ps), day) ELSE 0)
         + TotalDue(Tail(ps), day)

\* C16 - Every successful repayment of amount A debits the balance by exactly
\* A, once, whatever number of lines it touches and whatever part of A was
\* allocated, and appends exactly one repay log entry with amount A; when A
\* exceeds the total due over all active lines, all lines become PAID and the
\* excess is not returned.
C16_RepayStep ==
    (Served /\ last'.op = "repay_credit" /\ resp'.status = 200) =>
        /\ wallet'.balance = wallet.balance - last'.amount
        /\ txlog' = Append(txlog, [transaction_type |-> "repay",
                                   amount |-> last'.amount])
        /\ last'.amount > TotalDue(purchases, today) =>
              \A i \in DOMAIN purchases' : purchases'[i].status = "PAID"

C16_SingleDebit ==
    [][C16_RepayStep]_vars

\* 100.00 was repaid against a single line of 80.00: the line is PAID and the
\* whole 100.00 is gone from the balance
C16_Witness ==
    /\ last.op = "repay_credit"
    /\ resp.status = 200
    /\ last.amount = 10000
    /\ Len(purchases) = 1
    /\ purchases[1].credit_amount = 8000
    /\ purchases[1].status = "PAID"
    /\ wallet.balance = 25000 - 2000 - 10000
    /\ txlog[Len(txlog)] = [transaction_type |-> "repay", amount |-> 10000]

\* C19 - In every reachable state a credit line has remaining_amount = 0 if
\* and only if its status is PAID: a line is created with a positive
\* remaining balance and reaches 0 in the step that makes it PAID.
C19_ZeroIffPaid ==
    \A i \in DOMAIN purchases :
        (purchases[i].remaining_amount = 0) <=> (purchases[i].status = "PAID")

RECURSIVE SumRemaining(_)
\* the sum of remaining_amount over all lines
SumRemaining(ps) ==
    IF ps = <<>> THEN 0
    ELSE Head(ps).remaining_amount + SumRemaining(Tail(ps))

\* C27 - In every successful repayment (amounts are whole cents) the decrease
\* of wallet.credit_balance and the decrease of remaining_amount over all
\* lines are at most the amount debited from the balance: debt is never
\* reduced by more than was paid.
C27_RepayStep ==
    (Served /\ last'.op = "repay_credit" /\ resp'.status = 200) =>
        LET debited == wallet.balance - wallet'.balance
        IN  /\ debited = last'.amount
            /\ wallet.credit_balance - wallet'.credit_balance <= debited
            /\ SumRemaining(purchases) - SumRemaining(purchases') <= debited

C27_DebtReducedByAtMostPaid ==
    [][C27_RepayStep]_vars

\* 100.00 was paid against two lines of 80.00: the first is settled for
\* 84.00 and the 16.00 left reduce the second by 15.24
C27_Witness ==
    /\ last.op = "repay_credit"
    /\ resp.status = 200
    /\ last.amount = 10000
    /\ Len(purchases) = 2
    /\ SumRemaining(purchases) = 16000 - 8000 - 1524
    /\ wallet.credit_balance = SumRemaining(purchases)

-----------------------------------------------------------------------------
\* Properties of the wallet operations (Spec)

\* a score held within [300, 1000]
Clamped(score) ==
    IF score < 300 THEN 300 ELSE IF score > 1000 THEN 1000 ELSE score

\* the utilisation rule, then the savings rule, each step clamped
ScoreAfterUpdate(w) ==
    LET s1 == IF w.credit_balance = 0 THEN Clamped(w.credit_score + 10)
              ELSE IF 10 * w.credit_balance > 8 * w.credit_limit
                THEN Clamped(w.credit_score - 15)
              ELSE IF 10 * w.credit_balance < 5 * w.credit_limit
                THEN Clamped(w.credit_score + 5)
              ELSE w.credit_score
    IN  IF 10 * w.savings_balance > 5 * w.credit_balance
          THEN Clamped(s1 + 3) ELSE s1

\* C21 - One call of update_credit_score applies exactly one of the
\* utilisation rules (+10 when credit_balance = 0, else -15 when credit_balance
\* > 0.8 * credit_limit, else +5 when credit_balance < 0.5 * credit_limit, else
\* nothing) and then +3 when savings_balance > 0.5 * credit_balance, each step
\* clamped to [300, 1000]; no other wallet field changes.
C21_ScoreStep ==
    (Served /\ last'.op = "update_credit_score") =>
        wallet' = [wallet EXCEPT !.credit_score = ScoreAfterUpdate(wallet)]

C21_ScoreRules ==
    [][C21_ScoreStep]_vars

\* a wallet at 300 using more than 80% of its limit, with savings above half
\* of its debt: -15 was held at 300, then +3 was added
C21_Witness ==
    /\ last.op = "update_credit_score"
    /\ 10 * wallet.credit_balance > 8 * wallet.credit_limit
    /\ 10 * wallet.savings_balance > 5 * wallet.credit_balance
    /\ wallet.credit_score = 303

\* C22 - Every entry appended to the transaction log by a wallet operation
\* (deposit, withdrawal, savings transfer, purchase, repayment, credit limit
\* increase) has a strictly positive amount.
C22_PositiveAmounts ==
    \A k \in DOMAIN txlog : txlog[k].amount > 0

\* C29 - Savings transfers conserve money: deposit_to_savings and
\* withdraw_from_savings with amount a leave balance + savings_balance
\* unchanged and move exactly a from the source to the other balance; they
\* are rejected with no state change when a <= 0 or the source balance is
\* below a; an accepted transfer appends exactly one log entry.
C29_TransferStep ==
    (Served /\ last'.op \in {"deposit_to_savings", "withdraw_from_savings"}) =>
        LET a == last'.amount
            to_savings == last'.op = "deposit_to_savings"
            source == IF to_savings THEN wallet.balance ELSE wallet.savings_balance
            moved == IF to_savings THEN a ELSE -a
        IN  IF a <= 0 \/ source < a
              THEN /\ resp'.status = 400
                   /\ UNCHANGED dbvars
              ELSE /\ resp'.status = 200
                   /\ wallet'.balance = wallet.balance - moved
                   /\ wallet'.savings_balance = wallet.savings_balance + moved
                   /\ wallet'.balance + wallet'.savings_balance
                        = wallet.balance + wallet.savings_balance
                   /\ Len(txlog') = Len(txlog) + 1
                   /\ SubSeq(txlog', 1, Len(txlog)) = txlog
                   /\ txlog'[Len(txlog')].amount = a

C29_TransfersConserve ==
    [][C29_TransferStep]_vars

\* 50.00 were moved to savings and have been moved back
C29_Witness ==
    /\ last.op = "withdraw_from_savings"
    /\ last.amount = 5000
    /\ resp.status = 200
    /\ \E k \in DOMAIN txlog : txlog[k].transaction_type = "transfer"
    /\ txlog[Len(txlog)].transaction_type = "withdraw"

IsPrefix(s, t) ==
    /\ Len(s) <= Len(t)
    /\ SubSeq(t, 1, Len(s)) = s

\* the operations that only concern the wallet row
WalletOps ==
    {"deposit", "update_wallet_balance", "deposit_to_savings",
     "withdraw_from_savings", "update_credit_score", "request_limit_increase"}

\* C30 - Frame conditions: deposit, update_wallet_balance, the savings
\* transfers, update_credit_score and request_limit_increase change no credit
\* line and leave credit_balance alone; a purchase changes no existing credit
\* line; a repayment changes neither savings_balance nor credit_limit and
\* changes only unpaid lines of the caller; no operation modifies or removes
\* an existing log entry (the log only grows).
C30_FrameStep ==
    /\ IsPrefix(txlog, txlog')
    /\ (Served /\ last'.op \in WalletOps) =>
          /\ purchases' = purchases
          /\ wallet'.credit_balance = wallet.credit_balance
    /\ (Served /\ last'.op = "make_credit_purchase") =>
          IsPrefix(purchases, purchases')
    /\ (Served /\ last'.op = "repay_credit") =>
          /\ wallet'.savings_balance = wallet.savings_balance
          /\ wallet'.credit_limit = wallet.credit_limit
          /\ Len(purchases') = Len(purchases)
          /\ \A i \in DOMAIN purchases :
                purchases'[i] # purchases[i] => i \in Unpaid(purchases)

-----------------------------------------------------------------------------
\* Properties of the listing (SpecList)

\* C23 - The total-due preview that the listing (GET) reports for an open line
\* equals the amount_due_now that a repayment would compute for the same line
\* on the same day (remaining principal + interest + whole-week penalty), and
\* producing the listing changes no wallet, credit line or log state.
C23_ListStep ==
    (Served /\ last'.op = "credit_purchase_list") =>
        /\ \A i \in DOMAIN resp'.results :
              resp'.results[i] = total_due_now(purchases[i].remaining_amount,
                                               purchases[i].due_date, today)
        /\ UNCHANGED dbvars

C23_PreviewIsAmountDue ==
    [][C23_ListStep]_vars

-----------------------------------------------------------------------------
\* Properties of the checkouts (SpecShop)

CheckoutOps ==
    {"create_order", "order_viewset_create"}

\* C24 - A checkout with payment method credit opens a credit line: every
\* increase of wallet.credit_balance made by a checkout is matched by a newly
\* created ACTIVE credit line whose remaining_amount equals that increase, so
\* that the debt can be repaid through repay_credit.
C24_CheckoutStep ==
    (/\ Served
     /\ last'.op \in CheckoutOps
     /\ wallet'.credit_balance > wallet.credit_balance) =>
        /\ Len(purchases') = Len(purchases) + 1
        /\ purchases'[Len(purchases')].status = "ACTIVE"
        /\ purchases'[Len(purchases')].remaining_amount
             = wallet'.credit_balance - wallet.credit_balance

C24_CheckoutOpensLine ==
    [][C24_CheckoutStep]_vars

\* C26 - Credit limit invariant: after any sequence of purchases, repayments,
\* score updates and request_limit_increase calls, wallet.credit_balance <=
\* wallet.credit_limit; credit_limit changes only through
\* request_limit_increase, only when credit_score >= 700, and never decreases.
C26_LimitStep ==
    /\ wallet'.credit_balance <= wallet'.credit_limit
    /\ wallet'.credit_limit # wallet.credit_limit =>
          /\ last'.op = "request_limit_increase"
          /\ wallet.credit_score >= 700
          /\ wallet'.credit_limit > wallet.credit_limit

C26_CreditLimit ==
    [][C26_LimitStep]_vars

-----------------------------------------------------------------------------
\* Properties of the API repayment (SpecWalletApi)

\* C25 - RepayCreditView.post lets a user repay part or all of their credit:
\* for a user who holds an unpaid credit purchase created by
\* CreditPurchaseView.post (a line that is not paid and has remaining_amount
\* 0 from its creation) and whose balance is >= amount > 0, the call is
\* accepted, the balance decreases by amount and credit_balance decreases.
C25_ApiRepayStep ==
    (/\ Served
     /\ last'.op = "repay_credit_view"
     /\ last'.amount > 0
     /\ wallet.balance >= last'.amount
     /\ \E i \in Unpaid(purchases) : purchases[i].remaining_amount = 0) =>
        /\ resp'.status = 200
        /\ wallet'.balance = wallet.balance - last'.amount
        /\ wallet'.credit_balance < wallet.credit_balance

C25_ApiRepayAccepted ==
    [][C25_ApiRepayStep]_vars

-----------------------------------------------------------------------------
\* SpecPayoff: deposits, purchases and repayments served one at a time while
\* days pass, and a borrower who keeps repaying the amount due on the
\* earliest-due open line, depositing cash when short

\* what the borrower may pay on top of the amount due
PayoffExtras ==
    {0, 500}

\* the deposit the borrower makes when the balance does not cover the payment
PayoffDeposits ==
    {25000}

\* <<amount, down_payment>> of the purchases of SpecPayoff
PayoffPurchases ==
    {<<10000, 2000>>, <<52000, 10400>>}

\* repayments of SpecPayoff that need not cover the amount due
PayoffRepayAmounts ==
    {1, 5600}

\* a request other than the borrower's ran from start to end
ServeRound(rq, r) ==
    /\ nops < MaxRounds
    /\ last' = rq
    /\ wallet' = r.wallet
    /\ purchases' = r.purchases
    /\ txlog' = r.txlog
    /\ resp' = r.resp
    /\ nops' = nops + 1
    /\ UNCHANGED <<today, workervars>>

\* POST deposit into the wallet balance
DepositCash ==
    \E amount \in PayoffDeposits :
        ServeRound([op |-> "deposit", amount |-> amount, target |-> "wallet"],
                   deposit(CurrentDB, amount, "wallet"))

\* POST make_credit_purchase
Borrow ==
    \E inp \in PayoffPurchases :
        ServeRound([op |-> "make_credit_purchase", amount |-> inp[1],
                    down_payment |-> inp[2]],
                   make_credit_purchase(CurrentDB, today, inp[1], inp[2]))

\* POST repay_credit with an amount of the caller's choice
PayPart ==
    \E amount \in PayoffRepayAmounts, order \in DueDateOrders(purchases) :
        ServeRound([op |-> "repay_credit", amount |-> amount],
                   repay_credit(CurrentDB, today, amount, order))

\* a request of the borrower: handled like any other, outside the count of
\* the other requests
ServePayoff(rq, r) ==
    /\ last' = rq
    /\ wallet' = r.wallet
    /\ purchases' = r.purchases
    /\ txlog' = r.txlog
    /\ resp' = r.resp
    /\ UNCHANGED <<today, nops, workervars>>

\* the amount due today on the line a repayment would visit first
EarliestDue(order) ==
    AmountDueNow(purchases[order[1]], today)

\* POST repay_credit with at least the amount due on the earliest-due line
PayEarliestDue ==
    /\ Unpaid(purchases) # {}
    /\ \E order \in DueDateOrders(purchases), extra \in PayoffExtras :
          /\ wallet.balance >= EarliestDue(order) + extra
          /\ ServePayoff([op |-> "repay_credit",
                          amount |-> EarliestDue(order) + extra],
                         repay_credit(CurrentDB, today,
                                      EarliestDue(order) + extra, order))

\* POST deposit while the balance does not cover the next payment
Fund ==
    /\ Unpaid(purchases) # {}
    /\ \E order \in DueDateOrders(purchases), extra \in PayoffExtras :
          wallet.balance < EarliestDue(order) + extra
    /\ \E amount \in PayoffDeposits :
          ServePayoff([op |-> "deposit", amount |-> amount, target |-> "wallet"],
                      deposit(CurrentDB, amount, "wallet"))

NextPayoff ==
    \/ DepositCash
    \/ Borrow
    \/ PayPart
    \/ Tick
    \/ PayEarliestDue
    \/ Fund

\* the borrower does not stop: a payment or a deposit that stays possible is
\* made
SpecPayoff ==
    /\ Init
    /\ [][NextPayoff]_vars
    /\ WF_vars(PayEarliestDue)
    /\ WF_vars(Fund)

-----------------------------------------------------------------------------
\* Properties of the payoff (SpecPayoff)

HasDebt ==
    Unpaid(purchases) # {}

Cleared ==
    /\ \A i \in DOMAIN purchases : purchases[i].status = "PAID"
    /\ wallet.credit_balance = 0

\* with cash at hand, a repayment of the amount due on the earliest-due line
\* of db settles that line
CanSettle(db, day) ==
    \A order \in DueDateOrders(db.purchases) :
        Len(order) > 0 =>
            LET a == AmountDueNow(db.purchases[order[1]], day)
                r == repay_credit([db EXCEPT !.wallet.balance = a], day, a, order)
            IN  /\ a > 0
                /\ r.resp.status = 200
                /\ r.purchases[order[1]].status = "PAID"

PaidLines(ps) ==
    {i \in DOMAIN ps : ps[i].status = "PAID"}

\* an accepted repayment settles a line, or the earliest-due line can still
\* be settled by paying what is then due on it
C28_RepayStep ==
    (/\ last'.op = "repay_credit"
     /\ resp'.status = 200
     /\ txlog' # txlog
     /\ \E i \in Unpaid(purchases) : purchases[i].remaining_amount > 0) =>
        \/ PaidLines(purchases') # PaidLines(purchases)
        \/ CanSettle(DB(wallet', purchases', txlog'), today)

\* C28 - Debt can always be cleared: when all lines come from
\* make_credit_purchase and repayments of at least the amount due on the
\* earliest-due active line keep being made (cash being available), every
\* line is eventually PAID with credit_balance = 0; and every accepted
\* repayment against a line with a positive remaining balance settles a line
\* or leaves it possible to settle the line later.
C28_DebtCanBeCleared ==
    /\ HasDebt ~> Cleared
    /\ [][C28_RepayStep]_vars

\* two lines of 80.00 were opened, the borrower paid 89.00 when 84.00 were due
\* on the first, and has since paid off the second as well
C28_Witness ==
    /\ Len(purchases) = 2
    /\ Cleared
    /\ last.op = "repay_credit"
    /\ resp.status = 200
    /\ \E k \in DOMAIN txlog :
          /\ txlog[k].transaction_type = "repay"
          /\ txlog[k].amount = 8900

====
